---- MODULE Spec2Model ----
(***************************************************************************)
(* Model of the catalog crawler of src/main.py (function crawl and the     *)
(* helpers it calls), and of clean_html, parse_product_page and the        *)
(* /recommend handler of src/recommend_api_fixed.py as functions called on *)
(* their own.                                                              *)
(*                                                                         *)
(* Strings are modelled as sequences of tokens.  "/", "#", "?" and " " are *)
(* tokens of their own, so that split("#"), rstrip("/"), substring tests   *)
(* and regular-expression searches act on a URL the way the Python code    *)
(* acts on its characters.                                                 *)
(***************************************************************************)
EXTENDS Integers, Sequences, FiniteSets, TLC

\* ------------------------------------------------------------------ bounds
MaxRuns == 2          \* crawl invocations in one behaviour
MaxPages == 2         \* pages that exist on the site
MaxFailures == 1      \* failed fetches of existing pages and failed snapshot
                      \* writes, together
MaxCap == 1           \* largest max_products tried (0 stands for None)

\* --------------------------------------------------------------- constants
HostSHL == "https://www.shl.com"
HostOther == "https://other.example"
HostTokens == {HostSHL, HostOther}

START_URL ==
  <<HostSHL, "/", "solutions", "/", "products", "/", "product-catalog", "/">>

\* ------------------------------------------------------- string operations
\* str.lower(), token by token
LowerTok(t) ==
  CASE t = "Pre-Packaged" -> "pre-packaged"
    [] t = "Blog" -> "blog"
    [] t = ".PDF" -> ".pdf"
    [] t = "SCRIPT" -> "script"
    [] t = "JavaScript:" -> "javascript:"
    [] t = "On" -> "on"
    [] t = "Click" -> "click"
    [] OTHER -> t

lower(s) == [i \in 1..Len(s) |-> LowerTok(s[i])]

\* pat in s
Contains(s, pat) ==
  \E i \in 1..(Len(s) - Len(pat) + 1) : SubSeq(s, i, i + Len(pat) - 1) = pat

\* s.split("#")[0]
split_hash(s) ==
  IF \E i \in 1..Len(s) : s[i] = "#"
    THEN SubSeq(s, 1, (CHOOSE i \in 1..Len(s) :
                         s[i] = "#" /\ \A j \in 1..(i - 1) : s[j] # "#") - 1)
    ELSE s

\* s.rstrip("/")
RECURSIVE rstrip_slash(_)
rstrip_slash(s) ==
  IF s # <<>> /\ s[Len(s)] = "/" THEN rstrip_slash(SubSeq(s, 1, Len(s) - 1))
  ELSE s

\* a normalization that forgets rstrip("/")
normalize_link_no_rstrip(link) == split_hash(link)

\* link.split("#")[0].rstrip("/")
normalize_link(link) == rstrip_slash(split_hash(link))

\* urljoin(base_url, href) for absolute and path-absolute references
urljoin(base, href) ==
  IF href # <<>> /\ href[1] \in HostTokens \cup {"mailto:", "tel:"} THEN href
  ELSE <<base[1]>> \o href

\* urlparse(url).netloc
netloc(url) ==
  IF url = <<>> THEN ""
  ELSE CASE url[1] = HostSHL -> "www.shl.com"
         [] url[1] = HostOther -> "other.example"
         [] OTHER -> ""

\* "shl.com" in netloc
has_shl_com(n) == n = "www.shl.com"

\* tokens that start with "product"
ProductTokens == {"product", "products", "product-catalog"}

DigitTokens == {"2"}

\* "/product" in s
has_slash_product(s) ==
  \E i \in 1..(Len(s) - 1) : s[i] = "/" /\ s[i + 1] \in ProductTokens

\* href.startswith("mailto:") or href.startswith("tel:")
is_mail_or_tel(href) == href # <<>> /\ href[1] \in {"mailto:", "tel:"}

\* the test of find_product_links_from_catalog on a raw href
is_product_href(href) ==
  \/ has_slash_product(lower(href))
  \/ Contains(lower(href), <<"/", "solutions", "/">>)
  \/ Contains(lower(href), <<"/", "products", "/">>)

\* re.search(r"/page/|/tag/|/category/|/blog/", s, re.I)
is_listing_url(s) ==
  \E w \in {"page", "tag", "category", "blog"} : Contains(lower(s), <<"/", w, "/">>)

\* re.search(r"page=\d+|page/\d+", s, re.I)
has_paging(s) ==
  \E i \in 1..(Len(s) - 1) :
     \/ lower(s)[i] = "page=" /\ s[i + 1] \in DigitTokens
     \/ /\ i + 2 <= Len(s)
        /\ lower(s)[i] = "page" /\ s[i + 1] = "/" /\ s[i + 2] \in DigitTokens

\* a test that forgets the paging pattern
is_catalog_url_no_paging(full) ==
  \/ Contains(lower(full), <<"/", "solutions", "/">>)
  \/ Contains(lower(full), <<"/", "products", "/">>)

\* the test of the second loop of crawl on a resolved URL
is_catalog_url(full) ==
  \/ Contains(lower(full), <<"/", "solutions", "/">>)
  \/ Contains(lower(full), <<"/", "products", "/">>)
  \/ has_paging(full)

\* a test that forgets lower()
ends_with_pdf_case_sensitive(s) == s # <<>> /\ s[Len(s)] = ".pdf"

\* normalized.lower().endswith(".pdf")
ends_with_pdf(s) == s # <<>> /\ lower(s)[Len(s)] = ".pdf"

\* " ".join([a, b, c])
join3(a, b, c) == a \o <<" ">> \o b \o <<" ">> \o c

\* a filter that forgets lower()
is_prepackaged_case_sensitive(text) ==
  IF text = <<>> THEN FALSE
  ELSE \/ Contains(text, <<"pre-packaged">>)
       \/ Contains(text, <<"pre", " ", "packaged">>)
       \/ Contains(text, <<"prepackaged">>)

\* is_prepackaged(text)
is_prepackaged(text) ==
  IF text = <<>> THEN FALSE
  ELSE \/ Contains(lower(text), <<"pre-packaged">>)
       \/ Contains(lower(text), <<"pre", " ", "packaged">>)
       \/ Contains(lower(text), <<"prepackaged">>)

\* the set of links returned for a page: its product-looking anchors, resolved
RECURSIVE SeqToSet(_)
SeqToSet(s) == IF s = <<>> THEN {} ELSE {Head(s)} \cup SeqToSet(Tail(s))

find_product_links_from_catalog(html, base_url) ==
  { urljoin(base_url, html.anchors[i]) :
      i \in { j \in 1..Len(html.anchors) :
                /\ ~is_mail_or_tel(html.anchors[j])
                /\ is_product_href(html.anchors[j]) } }

\* ------------------------------------------------------------ the site
\* hrefs that occur on pages
HrefASlash == <<"/", "solutions", "/", "a", "/">>
HrefAFrag == <<"/", "solutions", "/", "a", "#", "f">>
HrefTop ==
  <<"/", "solutions", "/", "products", "/", "product-catalog", "/", "#", "top">>
HrefCatalog == <<"/", "solutions", "/", "products", "/", "product-catalog">>
HrefOther == <<HostOther, "/", "products", "/", "x">>
HrefBlog == <<"/", "blog", "/", "2020", "/", "post">>
HrefSolBlog == <<"/", "solutions", "/", "Blog", "/", "b">>
HrefPdf == <<"/", "products", "/", "x", ".PDF">>
HrefMail == <<"mailto:", "a@b.com">>
HrefPaging == <<"/", "catalog", "?", "page=", "2">>

\* anchor lists a page may carry, in document order
AnchorLists ==
  { <<>>,
    <<HrefASlash, HrefAFrag, HrefMail, HrefPaging>>,
    <<HrefTop, HrefCatalog>>,
    <<HrefOther, HrefBlog, HrefSolBlog, HrefPdf>> }

\* what parse_product_page extracts from a page
Texts ==
  { [assessment_name |-> <<"Sales">>, category |-> <<>>,
     short_description |-> <<>>],
    [assessment_name |-> <<"Pre-Packaged", " ", "Job">>, category |-> <<>>,
     short_description |-> <<>>] }

BlankText == [assessment_name |-> <<>>, category |-> <<>>,
              short_description |-> <<>>]

BlankPage == [anchors |-> <<>>, text |-> BlankText]

\* what a fetch can return: the crawl reads the anchors of a page it fetched
\* for link discovery, and the parsed fields of one it fetched as a product
Pages(kind) ==
  IF kind = "listing"
    THEN { [anchors |-> a, text |-> BlankText] : a \in AnchorLists }
    ELSE { [anchors |-> <<>>, text |-> t] : t \in Texts }

\* the server never sees the fragment
Key(url) == split_hash(url)

\* ------------------------------------------------------------ the state
VARIABLES
  OUT_JSON,             \* the durable store: the lines of the JSONL file
  seen_product_urls,    \* crawl: seen_product_urls
  queued,               \* crawl: queued
  processed_pages,      \* crawl: processed_pages
  discovered_products,  \* crawl: discovered_products
  max_products,         \* crawl: max_products, 0 for None
  pc,                   \* "start", "loop", "links", "done", "raised"
  page_url,             \* the page popped by the current iteration
  html,                 \* its content
  links,                \* the links of the page not yet visited by the for loop
  runs,                 \* number of crawl invocations started
  site_anchors,         \* the anchors of the pages read so far, by Key
  site_text,            \* the parsed fields of the pages read so far, by Key
  missing,              \* keys known not to exist (fetch always fails)
  nfail,                \* transient failures so far
  PAGES_DIR,            \* the snapshot directory: file name -> content
  nsavefail,            \* failed snapshot writes so far
  fetched,              \* history: [url, kind] of every fetch call of this run
  failed,               \* history: urls whose fetch failed in this run
  rejected,             \* history: urls rejected by the filter in this run
  enqueued,             \* history: urls appended to queued in this run
  lastFetch,            \* history: the fetch call made by the last step
  store_at_start,       \* history: the store when this run started
  slept,                \* history: time.sleep was called since the last fetch
  lastSave,             \* history: the snapshot file of the last step, and
                        \* what became of it
  arg,                  \* a call of a function on its own: the function and
                        \* its arguments
  ret                   \* what the call returned

frontier == <<seen_product_urls, queued, processed_pages, discovered_products>>
position == <<pc, page_url, html, links>>
env == <<site_anchors, site_text, missing, nfail>>
disk == <<PAGES_DIR, nsavefail>>

\* the pages known to exist
site == DOMAIN site_anchors \cup DOMAIN site_text
hist == <<fetched, failed, rejected, enqueued, lastFetch, store_at_start, slept,
          lastSave>>
calls == <<arg, ret>>
vars ==
  <<OUT_JSON, frontier, max_products, position, runs, env, disk, hist, calls>>

NoFetch == [url |-> <<>>, kind |-> "none", ok |-> FALSE]

NoSave == [file |-> <<>>, outcome |-> "none"]

\* failures of fetches and of snapshot writes, counted together
failures == nfail + nsavefail

\* a snapshot left in the directory by an earlier crawl whose store is gone
OldSnapshot ==
  [anchors |-> <<>>,
   text |-> [assessment_name |-> <<"Sales">>, category |-> <<"old">>,
             short_description |-> <<>>]]

\* what a write that raised half-way leaves: an empty file
EmptySnapshot == BlankPage

\* a line of the store is a record (ok: json.loads gives a dict) or text that
\* is no JSON; utf8 tells whether its bytes decode as UTF-8 at all
CorruptLine == [ok |-> FALSE, utf8 |-> TRUE, url |-> <<>>,
                assessment_name |-> <<>>, category |-> <<>>,
                short_description |-> <<>>]

\* a line cut inside a multi-byte character, as an interrupted append of a
\* record leaves it (append_jsonl writes with ensure_ascii=False)
UndecodableLine == [ok |-> FALSE, utf8 |-> FALSE, url |-> <<>>,
                    assessment_name |-> <<>>, category |-> <<>>,
                    short_description |-> <<>>]

Init ==
  /\ OUT_JSON \in {<<>>, <<CorruptLine>>, <<UndecodableLine>>}
  /\ nsavefail = 0
  /\ lastSave = NoSave
  /\ arg = <<>>
  /\ ret = <<>>
  /\ seen_product_urls = {}
  /\ queued = <<>>
  /\ processed_pages = {}
  /\ discovered_products = <<>>
  /\ max_products \in 0..MaxCap
  /\ PAGES_DIR \in {<<>>, <<"Sales", ".html">> :> OldSnapshot}
  /\ PAGES_DIR # <<>> => (OUT_JSON = <<>> /\ max_products = 0)
  /\ pc = "start"
  /\ page_url = <<>>
  /\ html = BlankPage
  /\ links = {}
  /\ runs = 0
  /\ site_anchors = <<>>
  /\ site_text = <<>>
  /\ missing = {}
  /\ nfail = 0
  /\ fetched = {}
  /\ failed = {}
  /\ rejected = {}
  /\ enqueued = {}
  /\ lastFetch = NoFetch
  /\ store_at_start = OUT_JSON
  /\ slept = FALSE

\* the page pg is what the site serves for url, as far as the site is known
Serves(url, kind, pg) ==
  IF kind = "listing"
    THEN /\ pg.text = BlankText
         /\ IF Key(url) \in DOMAIN site_anchors
              THEN /\ pg.anchors = site_anchors[Key(url)]
                   /\ UNCHANGED <<site_anchors, site_text>>
              ELSE /\ site_anchors' = site_anchors @@ (Key(url) :> pg.anchors)
                   /\ UNCHANGED site_text
    ELSE /\ pg.anchors = <<>>
         /\ IF Key(url) \in DOMAIN site_text
              THEN /\ pg.text = site_text[Key(url)]
                   /\ UNCHANGED <<site_anchors, site_text>>
              ELSE /\ site_text' = site_text @@ (Key(url) :> pg.text)
                   /\ UNCHANGED site_anchors

\* fetch(url): the call succeeds with page pg (ok) or raises (~ok).  The site
\* is static: a page, once read, keeps its content, and a missing page stays
\* missing; a page that exists may fail MaxFailures times in all
Fetch(url, kind, ok, pg) ==
  /\ \/ /\ Key(url) \in site
        /\ ok
        /\ Serves(url, kind, pg)
        /\ UNCHANGED <<missing, nfail>>
     \/ /\ Key(url) \in site
        /\ ~ok /\ pg = BlankPage
        /\ failures < MaxFailures
        /\ nfail' = nfail + 1
        /\ UNCHANGED <<site_anchors, site_text, missing>>
     \/ /\ Key(url) \in missing
        /\ ~ok /\ pg = BlankPage
        /\ UNCHANGED env
     \/ /\ Key(url) \notin site \cup missing
        /\ ~ok /\ pg = BlankPage
        /\ missing' = missing \cup {Key(url)}
        /\ UNCHANGED <<site_anchors, site_text, nfail>>
     \/ /\ Key(url) \notin site \cup missing
        /\ Cardinality(site) < MaxPages
        /\ ok
        /\ Serves(url, kind, pg)
        /\ UNCHANGED <<missing, nfail>>
  /\ fetched' = fetched \cup {[url |-> url, kind |-> kind]}
  /\ failed' = IF ok THEN failed ELSE failed \cup {url}
  /\ lastFetch' = [url |-> url, kind |-> kind, ok |-> ok]

NoFetchStep == /\ UNCHANGED <<env, fetched, failed>>
               /\ lastFetch' = NoFetch

NoSaveStep == /\ UNCHANGED disk
              /\ lastSave' = NoSave

\* a preload that reads nothing
StoreUrls_none == {}

\* the urls of the well-formed lines of the store
StoreUrls == { OUT_JSON[i].url : i \in { j \in 1..Len(OUT_JSON) : OUT_JSON[j].ok } }

\* crawl, lines 199-200: "for line in f" decodes the file as UTF-8, outside
\* the try of lines 201-205
decodable(store) == \A i \in 1..Len(store) : store[i].utf8

\* crawl, lines 191-207: a new invocation; seen is preloaded from the store.
\* A store that does not decode makes the loop over its lines raise
StartCrawl ==
  /\ pc \in {"start", "done", "raised"}
  /\ runs < MaxRuns
  /\ runs' = runs + 1
  /\ seen_product_urls' = StoreUrls
  /\ queued' = <<START_URL>>
  /\ discovered_products' = <<>>
  /\ processed_pages' = {}
  /\ pc' = IF decodable(OUT_JSON) THEN "loop" ELSE "raised"
  /\ page_url' = <<>>
  /\ html' = BlankPage
  /\ links' = {}
  /\ fetched' = {}
  /\ failed' = {}
  /\ rejected' = {}
  /\ enqueued' = {START_URL}
  /\ lastFetch' = NoFetch
  /\ store_at_start' = OUT_JSON
  /\ slept' = FALSE
  /\ NoSaveStep
  /\ UNCHANGED <<OUT_JSON, max_products, env, calls>>

\* a queue that takes new pages at its head
enqueue_at_head(q, u) == <<u>> \o q

\* crawl, lines 235 and 288: queued.append(u)
enqueue(q, u) == Append(q, u)

\* a scheduler that forgets to record the page
mark_processed_forgets(p) == processed_pages

\* crawl, line 217: processed_pages.add(page_url)
mark_processed(p) == processed_pages \cup {p}

\* crawl, lines 208-219: pop the head of the queue and fetch it
PopPage ==
  /\ pc = "loop"
  /\ queued # <<>>
  /\ queued' = Tail(queued)
  /\ page_url' = Head(queued)
  /\ IF Head(queued) \in processed_pages
       THEN /\ NoFetchStep
            /\ UNCHANGED <<processed_pages, pc, html, links, slept>>
       ELSE \E ok \in BOOLEAN, pg \in Pages("listing") \cup {BlankPage} :
              /\ Fetch(Head(queued), "listing", ok, pg)
              /\ slept' = FALSE
              /\ IF ok
                   THEN /\ processed_pages' = mark_processed(Head(queued))
                        /\ html' = pg
                        /\ links' = find_product_links_from_catalog(pg, Head(queued))
                        /\ pc' = "links"
                   ELSE UNCHANGED <<processed_pages, pc, html, links>>
  /\ NoSaveStep
  /\ UNCHANGED <<OUT_JSON, seen_product_urls, discovered_products,
                 max_products, runs, rejected, enqueued, store_at_start,
                 calls>>

\* crawl, lines 208 and 292: the queue is empty, crawl returns
Finish ==
  /\ pc = "loop"
  /\ queued = <<>>
  /\ pc' = "done"
  /\ NoFetchStep
  /\ NoSaveStep
  /\ UNCHANGED <<OUT_JSON, frontier, max_products, page_url, html, links,
                 runs, rejected, enqueued, store_at_start, slept, calls>>

\* what parse_product_page(prod_html, normalized) returns
parse_product_page(pg, url) ==
  [ok |-> TRUE, utf8 |-> TRUE, url |-> url,
   assessment_name |-> pg.text.assessment_name,
   category |-> pg.text.category,
   short_description |-> pg.text.short_description]

\* crawl, line 250
combined_text(obj) ==
  join3(obj.assessment_name, obj.category, obj.short_description)

\* crawl, lines 226-228: the link is dropped as being of another domain
other_domain(normalized) ==
  netloc(normalized) # "" /\ ~has_shl_com(netloc(normalized))

\* a cap test that is off by one
cap_reached_late(n) == max_products # 0 /\ n > max_products

\* crawl, line 273: max_products and len(discovered_products) >= max_products
cap_reached(n) == max_products # 0 /\ n >= max_products

\* re.sub(r"[^\w\-_. ]", "_", s) and then re.sub(r"\s+", "_", s), on a token
SafeTok(t) ==
  CASE t \in {"/", "#", "?", " "} -> "_"
    [] t = HostSHL -> "https___www.shl.com"
    [] t = HostOther -> "https___other.example"
    [] OTHER -> t

MaxNameLen == 200

\* safe_filename(s); the names of the model are shorter than MaxNameLen
\* characters, which s[:200] keeps whole
safe_filename(s) ==
  [i \in 1..(IF Len(s) < MaxNameLen THEN Len(s) ELSE MaxNameLen) |-> SafeTok(s[i])]

\* crawl, lines 258-259: the snapshot file of a record
page_file(obj) ==
  safe_filename(IF obj.assessment_name # <<>> THEN obj.assessment_name
                ELSE obj.url) \o <<".html">>

\* a snapshot that is written whether or not the file exists
must_save_always(dir, file) == TRUE

\* crawl, line 260: if not page_file.exists()
must_save(dir, file) == file \notin DOMAIN dir

\* a handler that lets the error of save_html escape
swallowed_none(outcome) == outcome # "raised"

\* crawl, lines 263-264: except Exception: pass
swallowed(outcome) == TRUE

\* crawl, lines 258-264: the snapshot of an accepted page.  save_html writes
\* the file or raises, leaving no file or an empty one
SaveSnapshot(prod_html, obj, outcome) ==
  LET file == page_file(obj) IN
  /\ lastSave' = [file |-> file, outcome |-> outcome]
  /\ IF ~must_save(PAGES_DIR, file)
       THEN /\ outcome = "exists"
            /\ UNCHANGED disk
       ELSE \/ /\ outcome = "written"
               /\ PAGES_DIR' = (file :> prod_html) @@ PAGES_DIR
               /\ UNCHANGED nsavefail
            \/ /\ outcome = "raised"
               /\ failures < MaxFailures
               /\ nsavefail' = nsavefail + 1
               /\ PAGES_DIR' \in {PAGES_DIR, (file :> EmptySnapshot) @@ PAGES_DIR}

\* an accept that appends the record and leaves seen as it is
AcceptRecord_forgets_seen(obj) ==
  /\ OUT_JSON' = Append(OUT_JSON, obj)
  /\ discovered_products' = Append(discovered_products, obj)
  /\ pc' = IF cap_reached(Len(discovered_products) + 1) THEN "done" ELSE pc
  /\ UNCHANGED <<seen_product_urls, queued, rejected, enqueued>>

\* crawl, lines 266-275: the record is written; crawl returns at the cap
AcceptRecord(obj) ==
  /\ OUT_JSON' = Append(OUT_JSON, obj)
  /\ seen_product_urls' = seen_product_urls \cup {obj.url}
  /\ discovered_products' = Append(discovered_products, obj)
  /\ pc' = IF cap_reached(Len(discovered_products) + 1) THEN "done" ELSE pc
  /\ UNCHANGED <<queued, rejected, enqueued>>

\* crawl, lines 220-275: one iteration of the loop over the links of the
\* page; list(set) fixes no order, so any remaining link may come next.
\* time.sleep (line 240) follows a product fetch that did not raise
ProcessLink ==
  /\ pc = "links"
  /\ \E link \in links :
       LET normalized == normalize_link(link) IN
       /\ links' = links \ {link}
       /\ IF \/ ends_with_pdf(normalized)
             \/ other_domain(normalized)
             \/ normalized \in seen_product_urls
            THEN /\ NoFetchStep
                 /\ NoSaveStep
                 /\ UNCHANGED <<OUT_JSON, frontier, pc, rejected, enqueued,
                                slept>>
            ELSE IF is_listing_url(normalized)
            THEN /\ NoFetchStep
                 /\ NoSaveStep
                 /\ UNCHANGED slept
                 /\ IF normalized \notin SeqToSet(queued)
                       /\ normalized \notin processed_pages
                      THEN /\ queued' = enqueue(queued, normalized)
                           /\ enqueued' = enqueued \cup {normalized}
                      ELSE UNCHANGED <<queued, enqueued>>
                 /\ UNCHANGED <<OUT_JSON, seen_product_urls, discovered_products,
                                pc, rejected>>
            ELSE \E ok \in BOOLEAN, pg \in Pages("product") \cup {BlankPage} :
                   /\ Fetch(normalized, "product", ok, pg)
                   /\ slept' = ok
                   /\ IF ~ok
                        THEN /\ NoSaveStep
                             /\ UNCHANGED <<OUT_JSON, frontier, pc, rejected,
                                            enqueued>>
                        ELSE IF is_prepackaged(combined_text(
                                  parse_product_page(pg, normalized)))
                        THEN /\ NoSaveStep
                             /\ seen_product_urls' =
                                  seen_product_urls \cup {normalized}
                             /\ rejected' = rejected \cup {normalized}
                             /\ UNCHANGED <<OUT_JSON, queued, discovered_products,
                                            pc, enqueued>>
                        ELSE \E outcome \in {"exists", "written", "raised"} :
                               /\ SaveSnapshot(pg, parse_product_page(pg, normalized),
                                               outcome)
                               /\ IF swallowed(outcome)
                                    THEN AcceptRecord(
                                           parse_product_page(pg, normalized))
                                    ELSE /\ pc' = "raised"
                                         /\ UNCHANGED <<OUT_JSON, frontier,
                                                        rejected, enqueued>>
  /\ UNCHANGED <<processed_pages, max_products, page_url, html, runs,
                 store_at_start, calls>>

\* a test that looks at the queue only
already_known_in_queue_only(full, processed, q) == full \in SeqToSet(q)

\* crawl, line 284: full in processed_pages or full in queued
already_known(full, processed, q) == full \in processed \/ full \in SeqToSet(q)

\* crawl, lines 279-288: the loop over all anchors of the page, in document
\* order; q is the queue as built up so far
RECURSIVE queue_next_pages(_, _, _, _)
queue_next_pages(anchors, base, processed, q) ==
  IF anchors = <<>> THEN q
  ELSE LET href == Head(anchors)
           full == urljoin(base, href)
       IN IF is_mail_or_tel(href)
            THEN queue_next_pages(Tail(anchors), base, processed, q)
          ELSE IF already_known(full, processed, q)
            THEN queue_next_pages(Tail(anchors), base, processed, q)
          ELSE IF is_catalog_url(full)
            THEN queue_next_pages(Tail(anchors), base, processed, enqueue(q, full))
          ELSE queue_next_pages(Tail(anchors), base, processed, q)

\* crawl, lines 277-290: after the links, queue the next pages and sleep
QueueNextPages ==
  /\ pc = "links"
  /\ links = {}
  /\ queued' = queue_next_pages(html.anchors, page_url, processed_pages, queued)
  /\ enqueued' = enqueued \cup SeqToSet(queued')
  /\ pc' = "loop"
  /\ NoFetchStep
  /\ NoSaveStep
  /\ slept' = TRUE
  /\ UNCHANGED <<OUT_JSON, seen_product_urls, processed_pages,
                 discovered_products, max_products, page_url, html, links,
                 runs, rejected, store_at_start, calls>>

Next ==
  \/ StartCrawl
  \/ PopPage
  \/ ProcessLink
  \/ QueueNextPages
  \/ Finish

Spec == Init /\ [][Next]_vars

\* the crawl is one sequential worker: a started step is always completed
FairSpec ==
  /\ Spec
  /\ WF_vars(PopPage)
  /\ WF_vars(ProcessLink)
  /\ WF_vars(QueueNextPages)
  /\ WF_vars(Finish)

\* ------------------------------------------------------------ clean_html
\* A document is the sequence of its elements in document order; an element
\* has a tag, attributes, its own text, and the index of its parent (0 for
\* none).  Names are sequences of tokens: <<"On", "Click">> is OnClick.
MaxNodes == 2

\* elements a document may hold, as written in the source text
RawElements ==
  { [tag |-> "div", attrs |-> {}, text |-> <<"Hello">>],
    [tag |-> "SCRIPT", attrs |-> {}, text |-> <<"alert(1)">>],
    [tag |-> "style", attrs |-> {}, text |-> <<"p{}">>],
    [tag |-> "noscript",
     attrs |-> {[name |-> <<"on", "load">>, value |-> <<"x()">>]},
     text |-> <<"enable">>],
    [tag |-> "iframe",
     attrs |-> {[name |-> <<"href">>, value |-> <<"javascript:", "x">>]},
     text |-> <<>>],
    [tag |-> "link",
     attrs |-> {[name |-> <<"href">>, value |-> <<"https://x">>]},
     text |-> <<>>],
    [tag |-> "a",
     attrs |-> {[name |-> <<"href">>, value |-> <<" ", "JavaScript:", "x">>],
                [name |-> <<"On", "Click">>, value |-> <<"x()">>]},
     text |-> <<"go">>],
    [tag |-> "a",
     attrs |-> {[name |-> <<"href">>, value |-> <<"https://x">>],
                [name |-> <<"data-", "on">>, value |-> <<"1">>]},
     text |-> <<"ok">>] }

\* elements that take no content (the empty-element tags of html.parser)
VoidTags == {"link"}

\* the documents of up to MaxNodes elements
Documents ==
  UNION { { d \in [1..n -> { [tag |-> e.tag, attrs |-> e.attrs, text |-> e.text,
                              parent |-> q] :
                               e \in RawElements, q \in 0..(MaxNodes - 1) }] :
              \A i \in 1..n :
                 /\ d[i].parent < i
                 /\ d[i].parent # 0 => LowerTok(d[d[i].parent].tag) \notin VoidTags }
          : n \in 1..MaxNodes }

\* BeautifulSoup(html, "html.parser"): the names of tags and attributes are
\* lowercased
parse_html(raw) ==
  [i \in 1..Len(raw) |->
     [tag |-> LowerTok(raw[i].tag),
      attrs |-> { [name |-> lower(a.name), value |-> a.value] : a \in raw[i].attrs },
      text |-> raw[i].text,
      parent |-> raw[i].parent]]

\* a list of tags to remove that forgets link
HarmfulTags_no_link == {"script", "noscript", "iframe", "style"}

\* clean_html, line 16
HarmfulTags == {"script", "noscript", "iframe", "style", "link"}

\* clean_html, lines 16-17: the element is decomposed, itself or with an
\* ancestor
RECURSIVE decomposed(_, _)
decomposed(soup, i) ==
  \/ soup[i].tag \in HarmfulTags
  \/ soup[i].parent # 0 /\ decomposed(soup, soup[i].parent)

\* str.strip()
RECURSIVE strip(_)
strip(v) ==
  IF v # <<>> /\ v[1] = " " THEN strip(Tail(v))
  ELSE IF v # <<>> /\ v[Len(v)] = " " THEN strip(SubSeq(v, 1, Len(v) - 1))
  ELSE v

\* clean_html, line 22
is_js_href(a) ==
  /\ a.name = <<"href">>
  /\ lower(strip(a.value)) # <<>>
  /\ lower(strip(a.value))[1] = "javascript:"

\* clean_html, line 27
is_event_attr(a) == lower(a.name) # <<>> /\ lower(a.name)[1] = "on"

\* clean_html(html): the elements that are left, by index, and the document
\* with their attributes cleaned
clean_html(raw) ==
  LET soup == parse_html(raw) IN
  [kept |-> { i \in 1..Len(soup) : ~decomposed(soup, i) },
   soup |-> [i \in 1..Len(soup) |->
               [soup[i] EXCEPT
                  !.attrs = { a \in @ : ~is_js_href(a) /\ ~is_event_attr(a) }]]]

CallCleanHtml ==
  /\ pc = "call" /\ arg.fn = "clean_html"
  /\ ret' = clean_html(arg.html)
  /\ pc' = "return"
  /\ UNCHANGED <<OUT_JSON, frontier, max_products, page_url, html, links, runs,
                 env, disk, hist, arg>>

\* ---------------------------------------------------- parse_product_page
\* A product page is described by what the function looks for: its first
\* h1, its title, the content of its meta description, and the first element
\* found by each of the three selectors.  Descriptions are sequences of
\* characters, so that Len is len().
None == [some |-> FALSE, v |-> <<>>]

Some(v) == [some |-> TRUE, v |-> v]

H1s == {None, Some(<<>>), Some(<<" ", "Sales", " ">>)}

Titles == {None, Some(<<>>), Some(<<"SHL", " ", "Sales">>)}

\* md.get("content"): no meta element or no content, or the content
MetaContents == {None, Some(<<>>), Some(<<"a", "b">>), Some(<<" ", "a", " ">>)}

SelectedTexts == {None, Some(<<"x">>), Some(<<"x", "y", "z">>)}

ProductPages ==
  [h1 : H1s, title : Titles, meta : MetaContents, div_class : SelectedTexts,
   section_class : SelectedTexts, div_id : SelectedTexts]

\* parse_product_page, lines 119-123: a Tag is true even when it is empty
title(soup) ==
  IF soup.h1.some THEN Some(strip(soup.h1.v))
  ELSE IF soup.title.some THEN Some(strip(soup.title.v))
  ELSE None

\* parse_product_page, lines 141-144, for the element el of one selector
longer(description, el) ==
  IF el.some /\ Len(strip(el.v)) > Len(description) THEN strip(el.v)
  ELSE description

\* parse_product_page, lines 126-144
description(soup) ==
  LET d0 == IF soup.meta.some /\ soup.meta.v # <<>> THEN strip(soup.meta.v)
            ELSE <<>>
  IN longer(longer(longer(d0, soup.div_class), soup.section_class), soup.div_id)

\* x or ""
or_empty(x) == IF x.some THEN x.v ELSE <<>>

\* parse_product_page, lines 176-183: the name and the short description
CallParseProductPage ==
  /\ pc = "call" /\ arg.fn = "parse_product_page"
  /\ ret' = [assessment_name |-> or_empty(title(arg.html)),
             url |-> arg.url,
             short_description |-> description(arg.html)]
  /\ pc' = "return"
  /\ UNCHANGED <<OUT_JSON, frontier, max_products, page_url, html, links, runs,
                 env, disk, hist, arg>>

\* ------------------------------------------------------------- recommend
MaxRequested == 12    \* largest top_k requested
MaxRecords == 11      \* largest number of records of the catalog

DefaultTopK == 5

MinTopK == 1

MaxTopK == 10

\* top_k left out of the request
NoTopK == [some |-> FALSE, v |-> 0]

\* req.top_k: Optional[int]
TopKs == {NoTopK} \cup { Some(k) : k \in (-1)..MaxRequested }

\* req.query, as far as recommend looks at it: "if not q or not q.strip()"
Queries == {<<>>, <<" ">>, <<"java">>}

\* recommend, lines 148-152
effective_top_k(top_k) ==
  LET k0 == IF top_k.some /\ top_k.v # 0 THEN top_k.v ELSE DefaultTopK
      k1 == IF k0 < MinTopK THEN MinTopK ELSE k0
  IN IF k1 > MaxTopK THEN MaxTopK ELSE k1

\* recommend(req) over a catalog of n records: records[:top_k], or the first
\* top_k indices of the ranking; the ranking itself is left out, a record is
\* named by its rank
recommend(req, n) ==
  IF strip(req.query) = <<>>
    THEN [status |-> 400, recommended_assessments |-> <<>>]
    ELSE LET top_k == effective_top_k(req.top_k) IN
         [status |-> 200,
          recommended_assessments |->
             [i \in 1..(IF top_k < n THEN top_k ELSE n) |-> i]]

CallRecommend ==
  /\ pc = "call" /\ arg.fn = "recommend"
  /\ ret' = recommend(arg.req, arg.records)
  /\ pc' = "return"
  /\ UNCHANGED <<OUT_JSON, frontier, max_products, page_url, html, links, runs,
                 env, disk, hist, arg>>

\* ---------------------------------------------------- convert_and_summary
MaxLines == 3         \* lines of the store read by main of convert_and_summary

\* A line of the raw store, as main reads it: blank; text that json.loads
\* rejects; JSON that is no object (null, [], 42); or an object, of which
\* the url, the name and the category matter here
NoFields == [url |-> <<>>, assessment_name |-> <<>>, category |-> <<>>]

UrlA == <<HostSHL, "/", "solutions", "/", "a">>

RawLines ==
  { [kind |-> "blank", obj |-> NoFields],
    [kind |-> "garbage", obj |-> NoFields],
    [kind |-> "scalar", obj |-> NoFields],
    [kind |-> "object",
     obj |-> [url |-> UrlA, assessment_name |-> <<"Sales">>, category |-> <<>>]],
    [kind |-> "object",
     obj |-> [url |-> UrlA, assessment_name |-> <<"Sales", " ", "2">>,
              category |-> <<>>]],
    [kind |-> "object",
     obj |-> [url |-> <<>>, assessment_name |-> <<"Sales">>, category |-> <<"K">>]],
    [kind |-> "object",
     obj |-> [url |-> <<>>, assessment_name |-> <<"Sales">>, category |-> <<>>]] }

RawStores == UNION { [1..n -> RawLines] : n \in 0..MaxLines }

\* normalize(item), as far as the fields above go
normalize(item) ==
  [name |-> item.assessment_name, url |-> item.url, category |-> item.category]

\* main, line 55: row.get("url") or (row.get("name") + "|" + row.get("category"))
dedup_key(row) ==
  IF row.url # <<>> THEN row.url ELSE row.name \o <<"|">> \o row.category

\* main, lines 45-59: the loop over the lines.  json.loads is inside the try,
\* normalize is not: obj.get on JSON that is no object raises, and main ends
\* before it writes any row
RECURSIVE read_rows(_, _, _)
read_rows(lines, rows, seen_urls) ==
  IF lines = <<>> THEN [raised |-> FALSE, rows |-> rows]
  ELSE LET line == Head(lines) IN
       IF line.kind \in {"blank", "garbage"}
         THEN read_rows(Tail(lines), rows, seen_urls)
       ELSE IF line.kind = "scalar"
         THEN [raised |-> TRUE, rows |-> <<>>]
       ELSE LET row == normalize(line.obj)
                key == dedup_key(row)
            IN IF key \in seen_urls
                 THEN read_rows(Tail(lines), rows, seen_urls)
                 ELSE read_rows(Tail(lines), Append(rows, row),
                                seen_urls \cup {key})

\* main of convert_and_summary: the rows written to the CSV file
convert(lines) == read_rows(lines, <<>>, {})

CallConvert ==
  /\ pc = "call" /\ arg.fn = "convert"
  /\ ret' = convert(arg.lines)
  /\ pc' = "return"
  /\ UNCHANGED <<OUT_JSON, frontier, max_products, page_url, html, links, runs,
                 env, disk, hist, arg>>

\* ------------------------------------------------- functions on their own
ConvertCalls == { [fn |-> "convert", lines |-> st] : st \in RawStores }

RecommendCalls ==
  { [fn |-> "recommend", req |-> [query |-> q, top_k |-> k], records |-> n] :
      q \in Queries, k \in TopKs, n \in 0..MaxRecords }

ParseCalls ==
  { [fn |-> "parse_product_page", html |-> pg,
     url |-> <<HostSHL, "/", "solutions", "/", "a">>] : pg \in ProductPages }

CleanHtmlCalls == { [fn |-> "clean_html", html |-> d] : d \in Documents }

\* one call of one function, from any of its arguments
CallInit ==
  /\ pc = "call"
  /\ \/ arg \in CleanHtmlCalls
     \/ arg \in ParseCalls
     \/ arg \in RecommendCalls
     \/ arg \in ConvertCalls
  /\ ret = <<>>
  /\ OUT_JSON = <<>>
  /\ seen_product_urls = {}
  /\ queued = <<>>
  /\ processed_pages = {}
  /\ discovered_products = <<>>
  /\ max_products = 0
  /\ page_url = <<>>
  /\ html = BlankPage
  /\ links = {}
  /\ runs = 0
  /\ site_anchors = <<>>
  /\ site_text = <<>>
  /\ missing = {}
  /\ nfail = 0
  /\ PAGES_DIR = <<>>
  /\ nsavefail = 0
  /\ fetched = {}
  /\ failed = {}
  /\ rejected = {}
  /\ enqueued = {}
  /\ lastFetch = NoFetch
  /\ store_at_start = <<>>
  /\ slept = FALSE
  /\ lastSave = NoSave

CallNext ==
  \/ CallCleanHtml
  \/ CallParseProductPage
  \/ CallRecommend
  \/ CallConvert

CallSpec == CallInit /\ [][CallNext]_vars

\* ------------------------------------------------------------ properties
\* canonical form of a url: fragment stripped, trailing slash stripped
Canonical(u) == rstrip_slash(split_hash(u))

\* the well-formed lines of the store
Records == { i \in 1..Len(OUT_JSON) : OUT_JSON[i].ok }

\* the host of a url differs from the host of the seed
OutsideSeedDomain(u) == u # <<>> /\ u[1] \in HostTokens /\ u[1] # START_URL[1]

\* the text contains "pre-packaged", "pre packaged" or "prepackaged",
\* whatever the case of its letters
MentionsPrepackaged(obj) ==
  LET t == join3(obj.assessment_name, obj.category, obj.short_description) IN
  \E i \in 1..Len(t) :
     \/ LowerTok(t[i]) \in {"pre-packaged", "prepackaged"}
     \/ /\ i + 2 <= Len(t)
        /\ LowerTok(t[i]) = "pre" /\ t[i + 1] = " "
        /\ LowerTok(t[i + 2]) = "packaged"

\* C1: no two records of the durable store have the same url after
\* canonicalization, after any number of runs and whatever fetches failed.
C1_DistinctCanonicalUrls ==
  \A i, j \in Records :
     Canonical(OUT_JSON[i].url) = Canonical(OUT_JSON[j].url) => i = j

\* a finished second run over a page that links to 'a/' and 'a#f', with the
\* record of 'a' in the store
C1_Witness ==
  /\ pc = "done" /\ runs >= 2
  /\ Key(START_URL) \in DOMAIN site_anchors
  /\ HrefASlash \in SeqToSet(site_anchors[Key(START_URL)])
  /\ HrefAFrag \in SeqToSet(site_anchors[Key(START_URL)])
  /\ \E i \in Records : OUT_JSON[i].url = <<HostSHL, "/", "solutions", "/", "a">>

\* C2: a second run with the same seed over an unchanging site, with no
\* fetch failure and no cap, appends nothing: the store stays as the first
\* run left it.
C2_IdempotentRerun ==
  (runs >= 2 /\ nfail = 0 /\ missing = {} /\ max_products = 0)
     => (discovered_products = <<>> /\ OUT_JSON = store_at_start)

\* a second run has finished without any failure, after a first run that
\* accepted a record
C2_Witness ==
  /\ runs >= 2 /\ pc = "done" /\ nfail = 0 /\ missing = {}
  /\ max_products = 0
  /\ Records # {}
  /\ fetched # {}

\* C3: a url whose host is outside the seed's domain is never fetched and
\* never appended to the queue.
C3_CrossDomainExclusion ==
  /\ \A f \in fetched : ~OutsideSeedDomain(f.url)
  /\ \A u \in enqueued : ~OutsideSeedDomain(u)

\* C4: once a url is in seen, no later step of the run fetches it or
\* appends it to the queue.
C4_SeenNeverReprocessed ==
  [][runs' = runs =>
       \A u \in seen_product_urls :
          /\ ~(lastFetch'.kind # "none" /\ lastFetch'.url = u)
          /\ ~(u \in SeqToSet(queued') /\ u \notin SeqToSet(queued))]_vars

\* C5: no record whose name + category + short description mentions
\* pre-packaged is in the store; a url rejected in this run is in seen and
\* no record of this run carries it.
C5_Rejection ==
  /\ \A i \in Records : ~MentionsPrepackaged(OUT_JSON[i])
  /\ rejected \subseteq seen_product_urls
  /\ \A i \in 1..Len(discovered_products) :
        discovered_products[i].url \notin rejected

\* a run has rejected one page and accepted another
C5_Witness ==
  /\ rejected # {}
  /\ pc = "done"
  /\ links = {}

\* C6: within one run no two different urls that are the same page after
\* canonicalization are both fetched for link discovery.
C6_ListingFetchedOnce ==
  \A p, q \in processed_pages : Canonical(p) = Canonical(q) => p = q

\* C7: a url whose fetch failed in this run is not fetched again in this
\* run.
C7_NoRetry ==
  [][(runs' = runs /\ lastFetch'.kind # "none") => lastFetch'.url \notin failed]_vars

\* C8: every run reaches its terminal state, where the queue is empty or
\* the cap is reached.
C8_Termination ==
  (pc \in {"loop", "links"}) ~>
     (pc = "done" /\ (queued = <<>> \/ (max_products # 0 /\
                          Len(discovered_products) >= max_products)))

\* a run that made four fetches or more, one of them failing, is over
C8_Witness ==
  /\ pc = "done"
  /\ Cardinality(fetched) >= 4
  /\ failed # {}
  /\ queued = <<>>

\* C9: with a cap N >= 1 a run never appends more than N records, and
\* after the N-th append it is over: no step of the run fetches or
\* enqueues any more.
C9_RecordCap ==
  /\ [](max_products >= 1 =>
         /\ Len(discovered_products) <= max_products
         /\ Len(discovered_products) = max_products => pc = "done")
  /\ [][(max_products >= 1 /\ Len(discovered_products) >= max_products
            /\ runs' = runs)
          => (fetched' = fetched /\ queued' = queued
              /\ OUT_JSON' = OUT_JSON)]_vars

\* a run was stopped by the cap while links and queued pages were left
C9_Witness ==
  /\ max_products >= 1
  /\ Len(discovered_products) = max_products
  /\ pc = "done"
  /\ links # {}

\* C10: when the pass over a fetched page is over, every same-domain anchor
\* of the page that matches a listing pattern is in the queue (or in seen or
\* processed_pages) and was not fetched as a product.
C10_ListingClassification ==
  [][(pc = "links" /\ pc' = "loop") =>
       \A i \in 1..Len(html.anchors) :
          LET full == urljoin(page_url, html.anchors[i]) IN
          (/\ ~is_mail_or_tel(html.anchors[i])
           /\ ~OutsideSeedDomain(full)
           /\ is_listing_url(full))
          => /\ \E u \in {full, Canonical(full)} :
                   u \in SeqToSet(queued') \cup processed_pages'
                          \cup seen_product_urls'
             /\ [url |-> Canonical(full), kind |-> "product"] \notin fetched']_vars

\* C11: between any two consecutive fetch calls of a run, whatever their kind
\* and outcome, time.sleep is called: a fetch that is not the first of its
\* run is made only after a delay since the previous one.
C11_Politeness ==
  [][(runs' = runs /\ lastFetch'.kind # "none" /\ fetched # {}) => slept]_vars

\* the urls of the well-formed lines of a store
UrlsOf(store) == { store[i].url : i \in { j \in 1..Len(store) : store[j].ok } }

\* C12: a line of the store that is no JSON record does not abort the
\* crawl, and from the start of the run on (so before its first fetch) the
\* url of every well-formed line of the store is in seen.
C12_PreloadTolerance ==
  runs >= 1 => /\ pc # "raised"
               /\ UrlsOf(store_at_start) \subseteq seen_product_urls

\* the record appended by a step
Appended(obj) == OUT_JSON' = Append(OUT_JSON, obj)

\* C13: when the write of the snapshot of an accepted page raises, the step
\* still appends the record to the store and adds its url to seen, and the
\* run goes on: it is not aborted, and the links and the queue that remain
\* are kept for the following steps (unless the cap ends the run).
C13_ArchiveFailureSwallowed ==
  [][lastSave'.outcome = "raised" =>
       /\ \E obj \in SeqToSet(discovered_products') :
             /\ Appended(obj)
             /\ obj.url = lastFetch'.url
             /\ obj.url \in seen_product_urls'
             /\ discovered_products' = Append(discovered_products, obj)
       /\ pc' = IF cap_reached(Len(discovered_products')) THEN "done" ELSE "links"
       /\ links' \subseteq links /\ Cardinality(links') = Cardinality(links) - 1
       /\ queued' = queued]_vars

\* a snapshot write has raised and the run went on to its end, fetching again
C13_Witness ==
  /\ nsavefail >= 1
  /\ discovered_products # <<>>
  /\ pc = "done"
  /\ queued = <<>>
  /\ lastSave.outcome = "none"
  /\ Cardinality(fetched) >= 3

\* C14: a snapshot file that exists keeps its content in every step, and a
\* step that accepts a record whose snapshot file (named by the slug of its
\* name, or of its url when the name is empty) exists still appends the
\* record to the store.
C14_ArchiveOverwriteSkip ==
  /\ [][\A f \in DOMAIN PAGES_DIR :
           f \in DOMAIN PAGES_DIR' /\ PAGES_DIR'[f] = PAGES_DIR[f]]_vars
  /\ [][lastSave'.outcome = "exists" =>
           \E obj \in SeqToSet(discovered_products') :
              /\ Appended(obj)
              /\ page_file(obj) = lastSave'.file
              /\ lastSave'.file \in DOMAIN PAGES_DIR]_vars

\* a record named Sales was accepted while the old Sales.html was there
C14_Witness ==
  /\ lastSave.outcome = "exists"
  /\ <<"Sales", ".html">> \in DOMAIN PAGES_DIR
  /\ PAGES_DIR[<<"Sales", ".html">>] = OldSnapshot
  /\ \E i \in Records : OUT_JSON[i].assessment_name = <<"Sales">>

\* the tag is one of script, style, iframe, noscript, link, in any case
IsHarmfulTag(t) ==
  LowerTok(t) \in {"script", "style", "iframe", "noscript", "link"}

\* element i of document d is outside every script, style, iframe, noscript
\* and link element
RECURSIVE Ancestors(_, _)
Ancestors(d, i) ==
  IF d[i].parent = 0 THEN {} ELSE {d[i].parent} \cup Ancestors(d, d[i].parent)

Remains(d, i) == \A j \in {i} \cup Ancestors(d, i) : ~IsHarmfulTag(d[j].tag)

\* C15: the output of clean_html has no script, style, iframe, noscript or
\* link element, no attribute whose name starts with "on" in any case and
\* no href whose value starts with javascript:; every element outside those
\* removed is still there with its text unchanged.
C15_Sanitizer ==
  (pc = "return" /\ arg.fn = "clean_html") =>
     /\ \A i \in ret.kept :
          /\ ~IsHarmfulTag(ret.soup[i].tag)
          /\ \A a \in ret.soup[i].attrs :
                /\ ~(a.name # <<>> /\ LowerTok(a.name[1]) = "on")
                /\ ~(a.name = <<"href">> /\ a.value # <<>>
                        /\ a.value[1] = "javascript:")
     /\ \A i \in 1..Len(arg.html) :
          Remains(arg.html, i) =>
             i \in ret.kept /\ ret.soup[i].text = arg.html[i].text

\* a div that holds a link with OnClick and a javascript: href was cleaned
C15_Witness ==
  /\ pc = "return" /\ arg.fn = "clean_html"
  /\ Len(arg.html) = 2
  /\ arg.html[1].tag = "div"
  /\ arg.html[2].parent = 1
  /\ \E a \in arg.html[2].attrs : a.name = <<"On", "Click">>
  /\ ret.kept = {1, 2}

\* the text of an element that has one, stripped, else nothing
TextOf(x) == IF x.some THEN strip(x.v) ELSE <<>>

\* C16: the name returned by parse_product_page is the first non-empty of
\* the text of the first h1 and the text of the title, and empty if both are:
\* a page with an empty h1 and a title is named by its title.
C16_NamePrecedence ==
  (pc = "return" /\ arg.fn = "parse_product_page") =>
     ret.assessment_name =
        IF TextOf(arg.html.h1) # <<>> THEN TextOf(arg.html.h1)
        ELSE TextOf(arg.html.title)

\* the longest of the texts found by the three selectors, the first of them
\* if several are as long
LongestSelected(pg) ==
  LET c == <<TextOf(pg.div_class), TextOf(pg.section_class), TextOf(pg.div_id)>>
      i == CHOOSE k \in 1..3 :
             /\ \A j \in 1..3 : Len(c[j]) <= Len(c[k])
             /\ \A j \in 1..(k - 1) : Len(c[j]) < Len(c[k])
  IN c[i]

\* C17: the short description is the content of the meta description when
\* it is not empty, whatever the selectors find; without it, the longest of
\* the texts they find; and empty with neither.
C17_DescriptionPrecedence ==
  (pc = "return" /\ arg.fn = "parse_product_page") =>
     ret.short_description =
        IF TextOf(arg.html.meta) # <<>> THEN TextOf(arg.html.meta)
        ELSE LongestSelected(arg.html)

\* the requested count clamped to [1, 10], 5 when none is given
Clamped(top_k) ==
  IF ~top_k.some THEN 5
  ELSE IF top_k.v < 1 THEN 1
  ELSE IF top_k.v > 10 THEN 10
  ELSE top_k.v

\* C18: a request that is answered gets min(c, n) entries, where c is the
\* requested top_k clamped to [1, 10] (0 and below give 1, above 10 gives
\* 10, none gives 5) and n is the number of records of the catalog.
C18_ResultCount ==
  (pc = "return" /\ arg.fn = "recommend" /\ ret.status = 200) =>
     Len(ret.recommended_assessments) =
        IF Clamped(arg.req.top_k) < arg.records THEN Clamped(arg.req.top_k)
        ELSE arg.records

\* p is a prefix of q
IsPrefix(p, q) == Len(p) <= Len(q) /\ SubSeq(q, 1, Len(p)) = p

\* C19: the queue is first in, first out: a listing fetch is that of the
\* head of the queue, and a step of a run changes the queue only by taking
\* its head off or by adding pages at its end; so a page enqueued before
\* another is fetched before it.
C19_FifoFrontier ==
  [][runs' = runs =>
       /\ lastFetch'.kind = "listing" =>
             (queued # <<>> /\ lastFetch'.url = Head(queued))
       /\ \/ IsPrefix(queued, queued')
          \/ queued # <<>> /\ queued' = Tail(queued)]_vars

\* a page other than the seed is fetched from the head of the queue while
\* two more wait behind it
C19_Witness ==
  /\ lastFetch.kind = "listing"
  /\ lastFetch.url # START_URL
  /\ lastFetch.url = page_url
  /\ Len(queued) >= 2

\* the url contains /solutions/ or /products/, or page=<digits> or
\* page/<digits>
MatchesCatalogRule(u) ==
  \/ Contains(u, <<"/", "solutions", "/">>)
  \/ Contains(u, <<"/", "products", "/">>)
  \/ \E i \in 1..(Len(u) - 1) : u[i] = "page=" /\ u[i + 1] \in {"2"}
  \/ \E i \in 1..(Len(u) - 2) :
        u[i] = "page" /\ u[i + 1] = "/" /\ u[i + 2] \in {"2"}

\* C20: when the processing of a fetched listing page is over without the
\* cap being hit, every anchor of the page, mailto: and tel: apart, whose
\* resolved url matches the catalog rule is in the queue or in
\* processed_pages, whether or not the first pass took it for a product.
C20_SecondaryPass ==
  [][(pc = "links" /\ pc' = "loop") =>
       \A i \in 1..Len(html.anchors) :
          LET full == urljoin(page_url, html.anchors[i]) IN
          (~is_mail_or_tel(html.anchors[i]) /\ MatchesCatalogRule(full))
             => full \in SeqToSet(queued') \cup processed_pages']_vars

\* the pass is over for a page with a paging link, which the first pass did
\* not take, and with links that it fetched as products
C20_Witness ==
  /\ pc = "loop"
  /\ html.anchors = <<HrefASlash, HrefAFrag, HrefMail, HrefPaging>>
  /\ urljoin(page_url, HrefPaging) \in SeqToSet(queued)
  /\ [url |-> <<HostSHL, "/", "solutions", "/", "a">>, kind |-> "product"]
        \in fetched

\* the dedup key of a line that is a record: its url, or name|category
KeyOfLine(line) ==
  IF line.obj.url # <<>> THEN line.obj.url
  ELSE line.obj.assessment_name \o <<"|">> \o line.obj.category

\* the lines that are records and the first of their key, in input order
RECURSIVE FirstOfKey(_, _)
FirstOfKey(lines, i) ==
  IF i > Len(lines) THEN <<>>
  ELSE IF /\ lines[i].kind = "object"
          /\ \A j \in 1..(i - 1) :
                lines[j].kind = "object" => KeyOfLine(lines[j]) # KeyOfLine(lines[i])
         THEN <<lines[i].obj>> \o FirstOfKey(lines, i + 1)
         ELSE FirstOfKey(lines, i + 1)

\* C21: for every input store, blank and malformed lines included,
\* convert_and_summary writes its rows: their dedup keys are pairwise
\* distinct, and they are the first well-formed line of each key, in input
\* order.
C21_NormalizationDedup ==
  (pc = "return" /\ arg.fn = "convert") =>
     /\ ~ret.raised
     /\ \A i, j \in 1..Len(ret.rows) :
          dedup_key(ret.rows[i]) = dedup_key(ret.rows[j]) => i = j
     /\ LET first == FirstOfKey(arg.lines, 1) IN
        /\ Len(ret.rows) = Len(first)
        /\ \A i \in 1..Len(first) :
             /\ ret.rows[i].url = first[i].url
             /\ ret.rows[i].name = first[i].assessment_name
             /\ ret.rows[i].category = first[i].category

\* C22: in every state of a run the queue holds no url twice and no url of
\* processed_pages; the test of line 210 on a popped url is never true.
C22_QueueInvariant ==
  /\ \A i, j \in 1..Len(queued) : queued[i] = queued[j] => i = j
  /\ \A i \in 1..Len(queued) : queued[i] \notin processed_pages

\* the pass over a second page is over: one of its anchors leads to a page
\* already processed, and other pages wait in the queue
C22_Witness ==
  /\ pc = "loop"
  /\ Cardinality(processed_pages) >= 2
  /\ queued # <<>>
  /\ \E i \in 1..Len(html.anchors) :
        urljoin(page_url, html.anchors[i]) \in processed_pages

\* C23: once the preload is over, every step of a run ends in a state where
\* the url of every well-formed line of the store is in seen, and a url that
\* a step adds to seen is the url of a rejected page or of a line that the
\* store then holds.
C23_SeenCoversStore ==
  [][/\ pc' \in {"loop", "links", "done"} =>
          UrlsOf(OUT_JSON') \subseteq seen_product_urls'
     /\ \A u \in seen_product_urls' \ seen_product_urls :
          u \in rejected' \/ u \in UrlsOf(OUT_JSON')]_vars

\* a second run has preloaded a record that the first run appended, and
\* works on the links of a page
C23_Witness ==
  /\ runs = 2
  /\ pc = "links"
  /\ UrlsOf(store_at_start) # {}
  /\ UrlsOf(OUT_JSON) \subseteq seen_product_urls

\* the url carries a fragment
HasFragment(u) == \E i \in 1..Len(u) : u[i] = "#"

\* the url ends in a slash
EndsInSlash(u) == u # <<>> /\ u[Len(u)] = "/"

\* the url ends in ".pdf", whatever the case of its letters
EndsInPdf(u) == u # <<>> /\ LowerTok(u[Len(u)]) \in {".pdf"}

\* the url has /page/, /tag/, /category/ or /blog/ in it, whatever the case
\* of its letters
HasListingPattern(u) ==
  \E i \in 1..(Len(u) - 2) :
     /\ u[i] = "/" /\ u[i + 2] = "/"
     /\ LowerTok(u[i + 1]) \in {"page", "tag", "category", "blog"}

\* C24: a step that changes the store appends one record; its url has no
\* fragment and no trailing slash, does not end in ".pdf", matches no
\* listing pattern and was not in seen before the step; the step fetched
\* that url as a product page, successfully, the record carries the fields
\* of the page served, and its text does not mention pre-packaged.
C24_AcceptedRecordShape ==
  [][OUT_JSON' # OUT_JSON =>
       LET obj == OUT_JSON'[Len(OUT_JSON')] IN
       /\ Appended(obj)
       /\ obj.ok
       /\ ~HasFragment(obj.url)
       /\ ~EndsInSlash(obj.url)
       /\ ~EndsInPdf(obj.url)
       /\ ~HasListingPattern(obj.url)
       /\ obj.url \notin seen_product_urls
       /\ lastFetch' = [url |-> obj.url, kind |-> "product", ok |-> TRUE]
       /\ obj.url \in DOMAIN site_text'
       /\ obj.assessment_name = site_text'[obj.url].assessment_name
       /\ obj.category = site_text'[obj.url].category
       /\ obj.short_description = site_text'[obj.url].short_description
       /\ ~MentionsPrepackaged(obj)]_vars

\* the last step accepted the page of 'a', reached through links with a
\* trailing slash and with a fragment
C24_Witness ==
  /\ lastFetch = [url |-> UrlA, kind |-> "product", ok |-> TRUE]
  /\ OUT_JSON # <<>>
  /\ OUT_JSON[Len(OUT_JSON)].ok
  /\ OUT_JSON[Len(OUT_JSON)].url = UrlA
  /\ \E k \in DOMAIN site_anchors :
        /\ HrefASlash \in SeqToSet(site_anchors[k])
        /\ HrefAFrag \in SeqToSet(site_anchors[k])

====
